---- MODULE Spec2Model ----
(***************************************************************************)
(* orbit_vulkan_layer::DispatchTable (src/OrbitVulkanLayer/DispatchTable.h) *)
(* as a state machine: the two dispatch tables, the two extension flag     *)
(* maps, the reader/writer mutex, and the position of every application    *)
(* thread inside the member function it is executing.                      *)
(***************************************************************************)
EXTENDS Naturals, FiniteSets, Sequences, TLC

VARIABLES
  workload,                                \* which environment drives the table (fixed by Init)
  instance_dispatch_table_,                \* key -> VkLayerInstanceDispatchTable
  device_dispatch_table_,                  \* key -> VkLayerDispatchTable
  device_supports_debug_marker_extension_, \* key -> bool
  device_supports_debug_utils_extension_,  \* key -> bool
  mutex_,                                  \* absl::Mutex: threads holding it exclusively, threads holding it shared
  pc,                                      \* thread -> position in its member function
  fn,                                      \* thread -> member function being executed
  obj,                                     \* thread -> dispatchable object passed in
  next_fn,                                 \* thread -> resolver passed to Create
  dispatch_table,                          \* thread -> local dispatch_table of Create
  key,                                     \* thread -> local key
  ret,                                     \* thread -> <<>> or <<returned value>>
  fatal,                                   \* the failed CHECK that terminated the process, and its thread
  instance_next_,                          \* history: key -> the resolver its live instance entry was made with
  device_next_,                            \* history: key -> the resolver its live device entry was made with
  follows_create                           \* history: thread -> its accessor call began after the Create of its
                                           \* key had returned, and the key has not been erased since

vars == <<workload, instance_dispatch_table_, device_dispatch_table_,
          device_supports_debug_marker_extension_,
          device_supports_debug_utils_extension_, mutex_, pc, fn, obj, next_fn,
          dispatch_table, key, ret, fatal, instance_next_, device_next_,
          follows_create>>

tables == <<instance_dispatch_table_, device_dispatch_table_,
            device_supports_debug_marker_extension_,
            device_supports_debug_utils_extension_>>

history == <<instance_next_, device_next_>>

-----------------------------------------------------------------------------
(* Bounds and data *)

NumThreads == 2

nullptr == 0

NoResolver == [impl |-> 0, nulls |-> {}]

NotFatal == [thread |-> 0, check |-> ""]

Empty == <<>>

\* Fields of VkLayerInstanceDispatchTable filled by CreateInstanceDispatchTable.
InstanceFields ==
  {"DestroyInstance", "GetInstanceProcAddr", "EnumerateDeviceExtensionProperties",
   "GetPhysicalDeviceProperties"}

\* The four entry points of the two optional debug extensions.
ExtensionFields ==
  {"CmdBeginDebugUtilsLabelEXT", "CmdEndDebugUtilsLabelEXT",
   "CmdDebugMarkerBeginEXT", "CmdDebugMarkerEndEXT"}

\* Fields of VkLayerDispatchTable filled by CreateDeviceDispatchTable.
DeviceFields ==
  {"DestroyDevice", "GetDeviceProcAddr", "ResetCommandPool", "AllocateCommandBuffers",
   "FreeCommandBuffers", "BeginCommandBuffer", "EndCommandBuffer", "ResetCommandBuffer",
   "QueueSubmit", "QueuePresentKHR", "GetDeviceQueue", "GetDeviceQueue2",
   "CreateQueryPool", "ResetQueryPoolEXT", "CmdWriteTimestamp", "GetQueryPoolResults"}
  \cup ExtensionFields

FlagFunctions == {"IsDebugMarkerExtensionSupported", "IsDebugUtilsExtensionSupported"}

\* The name each field is resolved by.
ProcName ==
  [DestroyInstance |-> "vkDestroyInstance",
   GetInstanceProcAddr |-> "vkGetInstanceProcAddr",
   EnumerateDeviceExtensionProperties |-> "vkEnumerateDeviceExtensionProperties",
   GetPhysicalDeviceProperties |-> "vkGetPhysicalDeviceProperties",
   DestroyDevice |-> "vkDestroyDevice",
   GetDeviceProcAddr |-> "vkGetDeviceProcAddr",
   ResetCommandPool |-> "vkResetCommandPool",
   AllocateCommandBuffers |-> "vkAllocateCommandBuffers",
   FreeCommandBuffers |-> "vkFreeCommandBuffers",
   BeginCommandBuffer |-> "vkBeginCommandBuffer",
   EndCommandBuffer |-> "vkEndCommandBuffer",
   ResetCommandBuffer |-> "vkResetCommandBuffer",
   QueueSubmit |-> "vkQueueSubmit",
   QueuePresentKHR |-> "vkQueuePresentKHR",
   GetDeviceQueue |-> "vkGetDeviceQueue",
   GetDeviceQueue2 |-> "vkGetDeviceQueue2",
   CreateQueryPool |-> "vkCreateQueryPool",
   ResetQueryPoolEXT |-> "vkResetQueryPoolEXT",
   CmdWriteTimestamp |-> "vkCmdWriteTimestamp",
   GetQueryPoolResults |-> "vkGetQueryPoolResults",
   CmdBeginDebugUtilsLabelEXT |-> "vkCmdBeginDebugUtilsLabelEXT",
   CmdEndDebugUtilsLabelEXT |-> "vkCmdEndDebugUtilsLabelEXT",
   CmdDebugMarkerBeginEXT |-> "vkCmdDebugMarkerBeginEXT",
   CmdDebugMarkerEndEXT |-> "vkCmdDebugMarkerEndEXT"]

\* The next layer's export list: the position of a name fixes the offset of
\* its implementation inside a layer's code.
Exports ==
  <<"vkDestroyInstance", "vkGetInstanceProcAddr", "vkEnumerateDeviceExtensionProperties",
    "vkGetPhysicalDeviceProperties", "vkDestroyDevice", "vkGetDeviceProcAddr",
    "vkResetCommandPool", "vkAllocateCommandBuffers", "vkFreeCommandBuffers",
    "vkBeginCommandBuffer", "vkEndCommandBuffer", "vkResetCommandBuffer",
    "vkQueueSubmit", "vkQueuePresentKHR", "vkGetDeviceQueue", "vkGetDeviceQueue2",
    "vkCreateQueryPool", "vkResetQueryPoolEXT", "vkCmdWriteTimestamp",
    "vkGetQueryPoolResults", "vkCmdBeginDebugUtilsLabelEXT",
    "vkCmdEndDebugUtilsLabelEXT", "vkCmdDebugMarkerBeginEXT", "vkCmdDebugMarkerEndEXT">>

Offset == [n \in {Exports[i] : i \in 1..Len(Exports)} |->
             CHOOSE i \in 1..Len(Exports) : Exports[i] = n]

\* next_get_instance_proc_addr_function(instance, name) and
\* next_get_device_proc_addr_function(device, name): the address of the next
\* layer's implementation of name, nullptr when that layer does not have it.
ProcAddr(next, object, name) ==
  IF name \in next.nulls THEN nullptr ELSE next.impl * 100 + Offset[name]

\* Memory: the first machine word stored at each dispatchable object's address.
\* 16 is a device (or instance), 32 a command buffer allocated from it (or a
\* physical device of it), 48 another device (or instance).
FirstWord == (16 :> 1) @@ (32 :> 1) @@ (48 :> 2)

\* A slip: the handle itself is taken as the key, not the word it points to.
GetDispatchTableKey_Handle(dispatchable_object) == dispatchable_object

\* return *absl::bit_cast<void**>(dispatchable_object);
GetDispatchTableKey(dispatchable_object) == FirstWord[dispatchable_object]

-----------------------------------------------------------------------------
(* The environment of each workload *)

Names(fields) == {ProcName[f] : f \in fields}

AllThreads == 1..NumThreads

\* The threads that call into the table.
Threads == IF workload = "sweep" THEN {1} ELSE AllThreads

Objects ==
  CASE workload = "threads" -> {16, 48}
    [] workload = "sweep" -> {16, 32}
    [] workload = "readers" -> {16, 32, 48}
    [] workload = "fair" -> {16}

\* The handles Create is called with: the instances and devices themselves.
\* Every other function is called with any handle.
Owners == Objects \ {32}

\* Resolvers the next layer may hand to CreateInstanceDispatchTable.
InstanceResolvers ==
  IF workload = "threads"
  THEN {[impl |-> 1, nulls |-> {}]}
  ELSE {[impl |-> 1, nulls |-> {}], [impl |-> 2, nulls |-> {}]}
       \cup {[impl |-> 1, nulls |-> {n}] : n \in Names(InstanceFields)}

\* Resolvers the next layer may hand to CreateDeviceDispatchTable.
DeviceResolvers ==
  IF workload \in {"threads", "readers"}
  THEN {[impl |-> 1, nulls |-> {}],
        [impl |-> 2, nulls |-> {"vkCmdDebugMarkerBeginEXT", "vkCmdDebugMarkerEndEXT"}]}
  ELSE IF workload = "fair"
  THEN {[impl |-> 1, nulls |-> {}]}
  ELSE {[impl |-> 2, nulls |-> {}]}
       \cup {[impl |-> 1, nulls |-> ns] : ns \in SUBSET Names(ExtensionFields)}
       \cup {[impl |-> 1, nulls |-> {n}] : n \in Names(DeviceFields \ ExtensionFields)}

\* Accessors the application threads call.
Accessors ==
  CASE workload = "threads" -> {"DestroyInstance", "QueueSubmit", "CmdDebugMarkerEndEXT"}
    [] workload = "sweep" -> InstanceFields \cup DeviceFields
    [] workload = "readers" -> {"QueueSubmit", "CmdDebugMarkerEndEXT"}
    [] workload = "fair" -> {"QueueSubmit"}

-----------------------------------------------------------------------------
(* Pure parts of the member functions *)

\* Lines 37-46: the local VkLayerInstanceDispatchTable.
ResolveInstanceTable(instance, next) ==
  [f \in InstanceFields |-> ProcAddr(next, instance, ProcName[f])]

\* A copy-paste slip: GetDeviceQueue2 resolved by the name of GetDeviceQueue.
ResolveDeviceTable_Misnamed(device, next) ==
  [f \in DeviceFields |->
     ProcAddr(next, device, ProcName[IF f = "GetDeviceQueue2" THEN "GetDeviceQueue" ELSE f])]

\* Lines 65-115: the local VkLayerDispatchTable.
ResolveDeviceTable(device, next) ==
  [f \in DeviceFields |-> ProcAddr(next, device, ProcName[f])]

\* A slip: one of the two entry points is taken to be enough.
SupportsDebugUtils_Either(table) ==
  table.CmdBeginDebugUtilsLabelEXT # nullptr \/ table.CmdEndDebugUtilsLabelEXT # nullptr

\* Lines 126-127.
SupportsDebugUtils(table) ==
  table.CmdBeginDebugUtilsLabelEXT # nullptr /\ table.CmdEndDebugUtilsLabelEXT # nullptr

\* A copy-paste slip: the marker flag computed from the debug utils entry points.
SupportsDebugMarker_FromDebugUtils(table) ==
  table.CmdBeginDebugUtilsLabelEXT # nullptr /\ table.CmdEndDebugUtilsLabelEXT # nullptr

\* A slip: only the begin entry point is tested.
SupportsDebugMarker_BeginOnly(table) == table.CmdDebugMarkerBeginEXT # nullptr

\* Lines 131-132.
SupportsDebugMarker(table) ==
  table.CmdDebugMarkerBeginEXT # nullptr /\ table.CmdDebugMarkerEndEXT # nullptr

contains(map, k) == k \in DOMAIN map

insert(map, k, v) == [x \in DOMAIN map \cup {k} |-> IF x = k THEN v ELSE map[x]]

\* A slip: the entry is left in the map.
erase_Nothing(map, k) == map

\* A slip: clear() instead of erase(key).
erase_Everything(map, k) == Empty

erase(map, k) == [x \in DOMAIN map \ {k} |-> map[x]]

\* A slip: a writer that does not wait for the readers.
CanLockExclusive_IgnoringReaders == mutex_.writers = {}

\* absl::WriterMutexLock can be granted: nobody holds the mutex in any mode.
CanLockExclusive == mutex_.writers = {} /\ mutex_.readers = {}

\* A slip: a reader that does not wait for the writer.
CanLockShared_Always == TRUE

\* A slip: the accessors take the mutex exclusively.
CanLockShared_OneAtATime == mutex_.writers = {} /\ mutex_.readers = {}

\* absl::ReaderMutexLock can be granted: nobody holds the mutex exclusively.
CanLockShared == mutex_.writers = {}

WriterLock(t) == [mutex_ EXCEPT !.writers = @ \cup {t}]

WriterUnlock(t) == [mutex_ EXCEPT !.writers = @ \ {t}]

ReaderLock(t) == [mutex_ EXCEPT !.readers = @ \cup {t}]

\* A slip: the shared lock is not released when the accessor returns.
ReaderUnlock_Leaked(t) == mutex_

ReaderUnlock(t) == [mutex_ EXCEPT !.readers = @ \ {t}]

\* The table an accessor reads.
TableOf(f) ==
  IF f \in InstanceFields THEN instance_dispatch_table_ ELSE device_dispatch_table_

\* The flag map a predicate function reads.
FlagsOf(f) ==
  IF f = "IsDebugMarkerExtensionSupported"
  THEN device_supports_debug_marker_extension_
  ELSE device_supports_debug_utils_extension_

\* History of the live entries: which resolver made each.
Record(h, k, next) == [x \in DOMAIN h \cup {k} |-> IF x = k THEN next ELSE h[x]]

Forget(h, k) == [x \in DOMAIN h \ {k} |-> h[x]]

\* History of the calls: the Create of key k on the table accessor f reads has
\* returned (the key is in the table and no Create of it is still inside its
\* critical section).
CreateReturned(f, k) ==
  /\ contains(TableOf(f), k)
  /\ ~\E u \in AllThreads :
        /\ key[u] = k
        /\ pc[u] \in (IF f \in InstanceFields
                      THEN {"ci_unlock"}
                      ELSE {"cd_utils", "cd_marker", "cd_unlock"})

\* History of the calls: key k was erased from the table that fields belong to.
Erased(fields, k) ==
  [u \in AllThreads |->
     follows_create[u] /\ ~(fn[u] \in fields /\ GetDispatchTableKey(obj[u]) = k)]

Running == fatal = NotFatal

CanCall(t) == Running /\ t \in Threads /\ pc[t] \in {"idle", "done"}

\* A thread enters member function f with object o and resolver r.
Enter(t, f, o, r, at) ==
  /\ pc' = [pc EXCEPT ![t] = at]
  /\ fn' = [fn EXCEPT ![t] = f]
  /\ obj' = [obj EXCEPT ![t] = o]
  /\ next_fn' = [next_fn EXCEPT ![t] = r]
  /\ ret' = [ret EXCEPT ![t] = Empty]

\* A void member function returns: its locals die.
Leave(t) ==
  /\ pc' = [pc EXCEPT ![t] = "idle"]
  /\ fn' = [fn EXCEPT ![t] = ""]
  /\ obj' = [obj EXCEPT ![t] = 0]
  /\ next_fn' = [next_fn EXCEPT ![t] = NoResolver]
  /\ dispatch_table' = [dispatch_table EXCEPT ![t] = Empty]
  /\ key' = [key EXCEPT ![t] = 0]

\* A failed CHECK terminates the process where it stands.
Abort(t, check) ==
  /\ fatal' = [thread |-> t, check |-> check]
  /\ UNCHANGED <<follows_create, workload, tables, history, mutex_, pc, fn, obj, next_fn,
                 dispatch_table, key, ret>>

Goto(t, at) == pc' = [pc EXCEPT ![t] = at]

locals == <<fn, obj, next_fn, dispatch_table, key, ret>>

-----------------------------------------------------------------------------
(* CreateInstanceDispatchTable, lines 35-54 *)

CreateInstanceDispatchTable_Resolve(t, instance, next) ==
  /\ CanCall(t)
  /\ Enter(t, "CreateInstanceDispatchTable", instance, next, "ci_lock")
  /\ dispatch_table' = [dispatch_table EXCEPT ![t] = ResolveInstanceTable(instance, next)]
  /\ key' = [key EXCEPT ![t] = GetDispatchTableKey(instance)]
  /\ UNCHANGED <<follows_create, workload, tables, history, mutex_, fatal>>

CreateInstanceDispatchTable_Lock(t) ==
  /\ Running /\ pc[t] = "ci_lock"
  /\ CanLockExclusive
  /\ mutex_' = WriterLock(t)
  /\ Goto(t, "ci_insert")
  /\ UNCHANGED <<follows_create, workload, tables, history, locals, fatal>>

CreateInstanceDispatchTable_Insert(t) ==
  /\ Running /\ pc[t] = "ci_insert"
  /\ \/ /\ contains(instance_dispatch_table_, key[t])
        /\ Abort(t, "CHECK(!instance_dispatch_table_.contains(key))")
     \/ /\ ~contains(instance_dispatch_table_, key[t])
        /\ instance_dispatch_table_' =
             insert(instance_dispatch_table_, key[t], dispatch_table[t])
        /\ instance_next_' = Record(instance_next_, key[t], next_fn[t])
        /\ Goto(t, "ci_unlock")
        /\ UNCHANGED <<follows_create, workload, device_dispatch_table_,
                       device_supports_debug_marker_extension_,
                       device_supports_debug_utils_extension_, device_next_,
                       mutex_, locals, fatal>>

CreateInstanceDispatchTable_Return(t) ==
  /\ Running /\ pc[t] = "ci_unlock"
  /\ mutex_' = WriterUnlock(t)
  /\ Leave(t)
  /\ UNCHANGED <<follows_create, workload, tables, history, ret, fatal>>

-----------------------------------------------------------------------------
(* RemoveInstanceDispatchTable, lines 56-61 *)

RemoveInstanceDispatchTable_Call(t, instance) ==
  /\ CanCall(t)
  /\ Enter(t, "RemoveInstanceDispatchTable", instance, NoResolver, "ri_lock")
  /\ dispatch_table' = [dispatch_table EXCEPT ![t] = Empty]
  /\ key' = [key EXCEPT ![t] = GetDispatchTableKey(instance)]
  /\ UNCHANGED <<follows_create, workload, tables, history, mutex_, fatal>>

RemoveInstanceDispatchTable_Lock(t) ==
  /\ Running /\ pc[t] = "ri_lock"
  /\ CanLockExclusive
  /\ mutex_' = WriterLock(t)
  /\ Goto(t, "ri_erase")
  /\ UNCHANGED <<follows_create, workload, tables, history, locals, fatal>>

\* A slip: the key is erased from the device table as well.
RemoveInstanceDispatchTable_Erase_BothTables(t) ==
  /\ Running /\ pc[t] = "ri_erase"
  /\ \/ /\ ~contains(instance_dispatch_table_, key[t])
        /\ Abort(t, "CHECK(instance_dispatch_table_.contains(key))")
     \/ /\ contains(instance_dispatch_table_, key[t])
        /\ instance_dispatch_table_' = erase(instance_dispatch_table_, key[t])
        /\ device_dispatch_table_' = erase(device_dispatch_table_, key[t])
        /\ instance_next_' = Forget(instance_next_, key[t])
        /\ device_next_' = Forget(device_next_, key[t])
        /\ follows_create' = Erased(InstanceFields, key[t])
        /\ Goto(t, "ri_unlock")
        /\ UNCHANGED <<workload, device_supports_debug_marker_extension_,
                       device_supports_debug_utils_extension_,
                       mutex_, locals, fatal>>

\* Lines 59-60.
RemoveInstanceDispatchTable_Erase(t) ==
  /\ Running /\ pc[t] = "ri_erase"
  /\ \/ /\ ~contains(instance_dispatch_table_, key[t])
        /\ Abort(t, "CHECK(instance_dispatch_table_.contains(key))")
     \/ /\ contains(instance_dispatch_table_, key[t])
        /\ instance_dispatch_table_' = erase(instance_dispatch_table_, key[t])
        /\ instance_next_' = Forget(instance_next_, key[t])
        /\ follows_create' = Erased(InstanceFields, key[t])
        /\ Goto(t, "ri_unlock")
        /\ UNCHANGED <<workload, device_dispatch_table_,
                       device_supports_debug_marker_extension_,
                       device_supports_debug_utils_extension_, device_next_,
                       mutex_, locals, fatal>>

RemoveInstanceDispatchTable_Return(t) ==
  /\ Running /\ pc[t] = "ri_unlock"
  /\ mutex_' = WriterUnlock(t)
  /\ Leave(t)
  /\ UNCHANGED <<follows_create, workload, tables, history, ret, fatal>>

-----------------------------------------------------------------------------
(* CreateDeviceDispatchTable, lines 63-134 *)

\* A slip: the writer lock is taken at the top of the function, as the reader
\* lock is in the accessors, so that the pointers are resolved under it.
CreateDeviceDispatchTable_Resolve_Locked(t, device, next) ==
  /\ CanCall(t)
  /\ CanLockExclusive
  /\ mutex_' = WriterLock(t)
  /\ Enter(t, "CreateDeviceDispatchTable", device, next, "cd_table")
  /\ dispatch_table' = [dispatch_table EXCEPT ![t] = ResolveDeviceTable(device, next)]
  /\ key' = [key EXCEPT ![t] = GetDispatchTableKey(device)]
  /\ UNCHANGED <<follows_create, workload, tables, history, fatal>>

\* Lines 65-117.
CreateDeviceDispatchTable_Resolve(t, device, next) ==
  /\ CanCall(t)
  /\ Enter(t, "CreateDeviceDispatchTable", device, next, "cd_lock")
  /\ dispatch_table' = [dispatch_table EXCEPT ![t] = ResolveDeviceTable(device, next)]
  /\ key' = [key EXCEPT ![t] = GetDispatchTableKey(device)]
  /\ UNCHANGED <<follows_create, workload, tables, history, mutex_, fatal>>

CreateDeviceDispatchTable_Lock(t) ==
  /\ Running /\ pc[t] = "cd_lock"
  /\ CanLockExclusive
  /\ mutex_' = WriterLock(t)
  /\ Goto(t, "cd_table")
  /\ UNCHANGED <<follows_create, workload, tables, history, locals, fatal>>

\* A slip: no CHECK, the entry of a key already present is replaced.
CreateDeviceDispatchTable_InsertTable_Overwriting(t) ==
  /\ Running /\ pc[t] = "cd_table"
  /\ device_dispatch_table_' = insert(device_dispatch_table_, key[t], dispatch_table[t])
  /\ device_next_' = Record(device_next_, key[t], next_fn[t])
  /\ Goto(t, "cd_utils")
  /\ UNCHANGED <<follows_create, workload, instance_dispatch_table_,
                 device_supports_debug_marker_extension_,
                 device_supports_debug_utils_extension_, instance_next_,
                 mutex_, locals, fatal>>

\* A slip: the writer lock covers the insertion into the table only.
CreateDeviceDispatchTable_InsertTable_ThenUnlock(t) ==
  /\ Running /\ pc[t] = "cd_table"
  /\ \/ /\ contains(device_dispatch_table_, key[t])
        /\ Abort(t, "CHECK(!device_dispatch_table_.contains(key))")
     \/ /\ ~contains(device_dispatch_table_, key[t])
        /\ device_dispatch_table_' =
             insert(device_dispatch_table_, key[t], dispatch_table[t])
        /\ device_next_' = Record(device_next_, key[t], next_fn[t])
        /\ mutex_' = WriterUnlock(t)
        /\ Goto(t, "cd_utils")
        /\ UNCHANGED <<follows_create, workload, instance_dispatch_table_,
                       device_supports_debug_marker_extension_,
                       device_supports_debug_utils_extension_, instance_next_,
                       locals, fatal>>

\* Lines 121-122.
CreateDeviceDispatchTable_InsertTable(t) ==
  /\ Running /\ pc[t] = "cd_table"
  /\ \/ /\ contains(device_dispatch_table_, key[t])
        /\ Abort(t, "CHECK(!device_dispatch_table_.contains(key))")
     \/ /\ ~contains(device_dispatch_table_, key[t])
        /\ device_dispatch_table_' =
             insert(device_dispatch_table_, key[t], dispatch_table[t])
        /\ device_next_' = Record(device_next_, key[t], next_fn[t])
        /\ Goto(t, "cd_utils")
        /\ UNCHANGED <<follows_create, workload, instance_dispatch_table_,
                       device_supports_debug_marker_extension_,
                       device_supports_debug_utils_extension_, instance_next_,
                       mutex_, locals, fatal>>

\* Lines 124-127.
CreateDeviceDispatchTable_InsertDebugUtils(t) ==
  /\ Running /\ pc[t] = "cd_utils"
  /\ \/ /\ contains(device_supports_debug_utils_extension_, key[t])
        /\ Abort(t, "CHECK(!device_supports_debug_utils_extension_.contains(key))")
     \/ /\ ~contains(device_supports_debug_utils_extension_, key[t])
        /\ device_supports_debug_utils_extension_' =
             insert(device_supports_debug_utils_extension_, key[t],
                    SupportsDebugUtils(dispatch_table[t]))
        /\ Goto(t, "cd_marker")
        /\ UNCHANGED <<follows_create, workload, instance_dispatch_table_, device_dispatch_table_,
                       device_supports_debug_marker_extension_, history,
                       mutex_, locals, fatal>>

\* A slip: the flag of the new device is written to every registered key.
CreateDeviceDispatchTable_InsertDebugMarker_Everywhere(t) ==
  /\ Running /\ pc[t] = "cd_marker"
  /\ \/ /\ contains(device_supports_debug_marker_extension_, key[t])
        /\ Abort(t, "CHECK(!device_supports_debug_marker_extension_.contains(key))")
     \/ /\ ~contains(device_supports_debug_marker_extension_, key[t])
        /\ device_supports_debug_marker_extension_' =
             [k \in DOMAIN device_supports_debug_marker_extension_ \cup {key[t]} |->
                SupportsDebugMarker(dispatch_table[t])]
        /\ Goto(t, "cd_unlock")
        /\ UNCHANGED <<follows_create, workload, instance_dispatch_table_,
                       device_dispatch_table_,
                       device_supports_debug_utils_extension_, history,
                       mutex_, locals, fatal>>

\* Lines 129-132.
CreateDeviceDispatchTable_InsertDebugMarker(t) ==
  /\ Running /\ pc[t] = "cd_marker"
  /\ \/ /\ contains(device_supports_debug_marker_extension_, key[t])
        /\ Abort(t, "CHECK(!device_supports_debug_marker_extension_.contains(key))")
     \/ /\ ~contains(device_supports_debug_marker_extension_, key[t])
        /\ device_supports_debug_marker_extension_' =
             insert(device_supports_debug_marker_extension_, key[t],
                    SupportsDebugMarker(dispatch_table[t]))
        /\ Goto(t, "cd_unlock")
        /\ UNCHANGED <<follows_create, workload, instance_dispatch_table_, device_dispatch_table_,
                       device_supports_debug_utils_extension_, history,
                       mutex_, locals, fatal>>

CreateDeviceDispatchTable_Return(t) ==
  /\ Running /\ pc[t] = "cd_unlock"
  /\ mutex_' = WriterUnlock(t)
  /\ Leave(t)
  /\ UNCHANGED <<follows_create, workload, tables, history, ret, fatal>>

-----------------------------------------------------------------------------
(* RemoveDeviceDispatchTable, lines 136-148 *)

RemoveDeviceDispatchTable_Call(t, device) ==
  /\ CanCall(t)
  /\ Enter(t, "RemoveDeviceDispatchTable", device, NoResolver, "rd_lock")
  /\ dispatch_table' = [dispatch_table EXCEPT ![t] = Empty]
  /\ key' = [key EXCEPT ![t] = GetDispatchTableKey(device)]
  /\ UNCHANGED <<follows_create, workload, tables, history, mutex_, fatal>>

RemoveDeviceDispatchTable_Lock(t) ==
  /\ Running /\ pc[t] = "rd_lock"
  /\ CanLockExclusive
  /\ mutex_' = WriterLock(t)
  /\ Goto(t, "rd_table")
  /\ UNCHANGED <<follows_create, workload, tables, history, locals, fatal>>

\* A slip: no CHECK, erasing a key that is not there goes unnoticed.
RemoveDeviceDispatchTable_EraseTable_Unchecked(t) ==
  /\ Running /\ pc[t] = "rd_table"
  /\ device_dispatch_table_' = erase(device_dispatch_table_, key[t])
  /\ device_next_' = Forget(device_next_, key[t])
  /\ follows_create' = Erased(DeviceFields \cup FlagFunctions, key[t])
  /\ Goto(t, "rd_utils")
  /\ UNCHANGED <<workload, instance_dispatch_table_,
                 device_supports_debug_marker_extension_,
                 device_supports_debug_utils_extension_, instance_next_,
                 mutex_, locals, fatal>>

\* Lines 140-141.
RemoveDeviceDispatchTable_EraseTable(t) ==
  /\ Running /\ pc[t] = "rd_table"
  /\ \/ /\ ~contains(device_dispatch_table_, key[t])
        /\ Abort(t, "CHECK(device_dispatch_table_.contains(key))")
     \/ /\ contains(device_dispatch_table_, key[t])
        /\ device_dispatch_table_' = erase(device_dispatch_table_, key[t])
        /\ device_next_' = Forget(device_next_, key[t])
        /\ follows_create' = Erased(DeviceFields \cup FlagFunctions, key[t])
        /\ Goto(t, "rd_utils")
        /\ UNCHANGED <<workload, instance_dispatch_table_,
                       device_supports_debug_marker_extension_,
                       device_supports_debug_utils_extension_, instance_next_,
                       mutex_, locals, fatal>>

\* Lines 143-144.
RemoveDeviceDispatchTable_EraseDebugUtils(t) ==
  /\ Running /\ pc[t] = "rd_utils"
  /\ \/ /\ ~contains(device_supports_debug_utils_extension_, key[t])
        /\ Abort(t, "CHECK(device_supports_debug_utils_extension_.contains(key))")
     \/ /\ contains(device_supports_debug_utils_extension_, key[t])
        /\ device_supports_debug_utils_extension_' =
             erase(device_supports_debug_utils_extension_, key[t])
        /\ Goto(t, "rd_marker")
        /\ UNCHANGED <<follows_create, workload, instance_dispatch_table_, device_dispatch_table_,
                       device_supports_debug_marker_extension_, history,
                       mutex_, locals, fatal>>

\* A slip: the debug marker flag is left behind.
RemoveDeviceDispatchTable_EraseDebugMarker_Forgotten(t) ==
  /\ Running /\ pc[t] = "rd_marker"
  /\ Goto(t, "rd_unlock")
  /\ UNCHANGED <<follows_create, workload, tables, history, mutex_, locals, fatal>>

\* Lines 146-147.
RemoveDeviceDispatchTable_EraseDebugMarker(t) ==
  /\ Running /\ pc[t] = "rd_marker"
  /\ \/ /\ ~contains(device_supports_debug_marker_extension_, key[t])
        /\ Abort(t, "CHECK(device_supports_debug_marker_extension_.contains(key))")
     \/ /\ contains(device_supports_debug_marker_extension_, key[t])
        /\ device_supports_debug_marker_extension_' =
             erase(device_supports_debug_marker_extension_, key[t])
        /\ Goto(t, "rd_unlock")
        /\ UNCHANGED <<follows_create, workload, instance_dispatch_table_, device_dispatch_table_,
                       device_supports_debug_utils_extension_, history,
                       mutex_, locals, fatal>>

RemoveDeviceDispatchTable_Return(t) ==
  /\ Running /\ pc[t] = "rd_unlock"
  /\ mutex_' = WriterUnlock(t)
  /\ Leave(t)
  /\ UNCHANGED <<follows_create, workload, tables, history, ret, fatal>>

-----------------------------------------------------------------------------
(* The accessors, lines 150-368: DestroyDevice ... CmdDebugMarkerEndEXT.     *)
(* fn[t] is the accessor's name, which is also the field it returns.        *)

\* flat_hash_map::at of a missing key does not return.
Missing == "flat_hash_map::at: std::out_of_range"

Lookup_Call(t, f, dispatchable_object) ==
  /\ CanCall(t)
  /\ follows_create' =
       [follows_create EXCEPT ![t] = CreateReturned(f, GetDispatchTableKey(dispatchable_object))]
  /\ Enter(t, f, dispatchable_object, NoResolver, "lk_lock")
  /\ dispatch_table' = [dispatch_table EXCEPT ![t] = Empty]
  /\ key' = [key EXCEPT ![t] = 0]
  /\ UNCHANGED <<workload, tables, history, mutex_, fatal>>

\* absl::ReaderMutexLock lock(&mutex_); void* key = GetDispatchTableKey(...);
Lookup_Lock(t) ==
  /\ Running /\ pc[t] = "lk_lock"
  /\ CanLockShared
  /\ mutex_' = ReaderLock(t)
  /\ key' = [key EXCEPT ![t] = GetDispatchTableKey(obj[t])]
  /\ Goto(t, "lk_contains")
  /\ UNCHANGED <<follows_create, workload, tables, history, fn, obj, next_fn, dispatch_table, ret, fatal>>

\* A slip: the presence check in a critical section of its own, the shared
\* lock released before the entry is read.
Lookup_CheckContains_ThenUnlock(t) ==
  /\ Running /\ pc[t] = "lk_contains"
  /\ \/ /\ ~contains(TableOf(fn[t]), key[t])
        /\ Abort(t, "CHECK(dispatch_table_.contains(key))")
     \/ /\ contains(TableOf(fn[t]), key[t])
        /\ mutex_' = ReaderUnlock(t)
        /\ Goto(t, "lk_nonnull")
        /\ UNCHANGED <<follows_create, workload, tables, history, locals, fatal>>

\* CHECK(table.contains(key));
Lookup_CheckContains(t) ==
  /\ Running /\ pc[t] = "lk_contains"
  /\ \/ /\ ~contains(TableOf(fn[t]), key[t])
        /\ Abort(t, "CHECK(dispatch_table_.contains(key))")
     \/ /\ contains(TableOf(fn[t]), key[t])
        /\ Goto(t, "lk_nonnull")
        /\ UNCHANGED <<follows_create, workload, tables, history, mutex_, locals, fatal>>

\* A slip: the pointer is returned without the CHECK.
Lookup_CheckNonNull_Skipped(t) ==
  /\ Running /\ pc[t] = "lk_nonnull"
  /\ Goto(t, "lk_return")
  /\ UNCHANGED <<follows_create, workload, tables, history, mutex_, locals, fatal>>

\* A slip: an extension entry point is handed out only when the flag of its
\* extension is set.
Lookup_CheckNonNull_Gated(t) ==
  /\ Running /\ pc[t] = "lk_nonnull"
  /\ \/ /\ \/ TableOf(fn[t])[key[t]][fn[t]] = nullptr
           \/ /\ fn[t] \in {"CmdBeginDebugUtilsLabelEXT", "CmdEndDebugUtilsLabelEXT"}
              /\ ~device_supports_debug_utils_extension_[key[t]]
           \/ /\ fn[t] \in {"CmdDebugMarkerBeginEXT", "CmdDebugMarkerEndEXT"}
              /\ ~device_supports_debug_marker_extension_[key[t]]
        /\ Abort(t, "CHECK(dispatch_table_.at(key).Field != nullptr)")
     \/ /\ TableOf(fn[t])[key[t]][fn[t]] # nullptr
        /\ fn[t] \in {"CmdBeginDebugUtilsLabelEXT", "CmdEndDebugUtilsLabelEXT"} =>
             device_supports_debug_utils_extension_[key[t]]
        /\ fn[t] \in {"CmdDebugMarkerBeginEXT", "CmdDebugMarkerEndEXT"} =>
             device_supports_debug_marker_extension_[key[t]]
        /\ Goto(t, "lk_return")
        /\ UNCHANGED <<follows_create, workload, tables, history, mutex_, locals, fatal>>

\* CHECK(table.at(key).Field != nullptr);
Lookup_CheckNonNull(t) ==
  /\ Running /\ pc[t] = "lk_nonnull"
  /\ \/ /\ ~contains(TableOf(fn[t]), key[t]) \/ TableOf(fn[t])[key[t]][fn[t]] = nullptr
        /\ Abort(t, IF contains(TableOf(fn[t]), key[t])
                 THEN "CHECK(dispatch_table_.at(key).Field != nullptr)"
                 ELSE Missing)
     \/ /\ contains(TableOf(fn[t]), key[t])
        /\ TableOf(fn[t])[key[t]][fn[t]] # nullptr
        /\ Goto(t, "lk_return")
        /\ UNCHANGED <<follows_create, workload, tables, history, mutex_, locals, fatal>>

\* return table.at(key).Field; and the lock's destructor.
Lookup_Return(t) ==
  /\ Running /\ pc[t] = "lk_return"
  /\ IF contains(TableOf(fn[t]), key[t])
     THEN /\ ret' = [ret EXCEPT ![t] = <<TableOf(fn[t])[key[t]][fn[t]]>>]
          /\ mutex_' = ReaderUnlock(t)
          /\ follows_create' = [follows_create EXCEPT ![t] = FALSE]
          /\ Goto(t, "done")
          /\ UNCHANGED <<workload, tables, history, fn, obj, next_fn,
                         dispatch_table, key, fatal>>
     ELSE Abort(t, Missing)

-----------------------------------------------------------------------------
(* IsDebugMarkerExtensionSupported and IsDebugUtilsExtensionSupported,      *)
(* lines 370-384. fn[t] is the function's name.                             *)

IsExtensionSupported_Call(t, f, dispatchable_object) ==
  /\ CanCall(t)
  /\ follows_create' =
       [follows_create EXCEPT ![t] = CreateReturned(f, GetDispatchTableKey(dispatchable_object))]
  /\ Enter(t, f, dispatchable_object, NoResolver, "ex_lock")
  /\ dispatch_table' = [dispatch_table EXCEPT ![t] = Empty]
  /\ key' = [key EXCEPT ![t] = 0]
  /\ UNCHANGED <<workload, tables, history, mutex_, fatal>>

IsExtensionSupported_Lock(t) ==
  /\ Running /\ pc[t] = "ex_lock"
  /\ CanLockShared
  /\ mutex_' = ReaderLock(t)
  /\ key' = [key EXCEPT ![t] = GetDispatchTableKey(obj[t])]
  /\ Goto(t, "ex_contains")
  /\ UNCHANGED <<follows_create, workload, tables, history, fn, obj, next_fn, dispatch_table, ret, fatal>>

IsExtensionSupported_CheckContains(t) ==
  /\ Running /\ pc[t] = "ex_contains"
  /\ \/ /\ ~contains(FlagsOf(fn[t]), key[t])
        /\ Abort(t, "CHECK(device_supports_extension_.contains(key))")
     \/ /\ contains(FlagsOf(fn[t]), key[t])
        /\ Goto(t, "ex_return")
        /\ UNCHANGED <<follows_create, workload, tables, history, mutex_, locals, fatal>>

IsExtensionSupported_Return(t) ==
  /\ Running /\ pc[t] = "ex_return"
  /\ IF contains(FlagsOf(fn[t]), key[t])
     THEN /\ ret' = [ret EXCEPT ![t] = <<FlagsOf(fn[t])[key[t]]>>]
          /\ mutex_' = ReaderUnlock(t)
          /\ follows_create' = [follows_create EXCEPT ![t] = FALSE]
          /\ Goto(t, "done")
          /\ UNCHANGED <<workload, tables, history, fn, obj, next_fn,
                         dispatch_table, key, fatal>>
     ELSE Abort(t, Missing)

-----------------------------------------------------------------------------
(* The specifications *)

\* DispatchTable() = default: empty maps, a free mutex, no thread inside.
Constructed ==
  /\ instance_dispatch_table_ = Empty
  /\ device_dispatch_table_ = Empty
  /\ device_supports_debug_marker_extension_ = Empty
  /\ device_supports_debug_utils_extension_ = Empty
  /\ mutex_ = [writers |-> {}, readers |-> {}]
  /\ pc = [t \in AllThreads |-> "idle"]
  /\ fn = [t \in AllThreads |-> ""]
  /\ obj = [t \in AllThreads |-> 0]
  /\ next_fn = [t \in AllThreads |-> NoResolver]
  /\ dispatch_table = [t \in AllThreads |-> Empty]
  /\ key = [t \in AllThreads |-> 0]
  /\ ret = [t \in AllThreads |-> Empty]
  /\ fatal = NotFatal
  /\ instance_next_ = Empty
  /\ device_next_ = Empty
  /\ follows_create = [t \in AllThreads |-> FALSE]

\* The keys the objects give.
Keys == {GetDispatchTableKey(o) : o \in DOMAIN FirstWord}

\* The shape of the state: the four maps of lines 399-402, the mutex of line
\* 408, and the locals of the member function each thread is in.
TypeOK ==
  /\ workload \in {"threads", "sweep", "readers", "fair"}
  /\ DOMAIN instance_dispatch_table_ \subseteq Keys
  /\ \A k \in DOMAIN instance_dispatch_table_ :
       /\ DOMAIN instance_dispatch_table_[k] = InstanceFields
       /\ \A f \in InstanceFields : instance_dispatch_table_[k][f] \in Nat
  /\ DOMAIN device_dispatch_table_ \subseteq Keys
  /\ \A k \in DOMAIN device_dispatch_table_ :
       /\ DOMAIN device_dispatch_table_[k] = DeviceFields
       /\ \A f \in DeviceFields : device_dispatch_table_[k][f] \in Nat
  /\ DOMAIN device_supports_debug_marker_extension_ \subseteq Keys
  /\ \A k \in DOMAIN device_supports_debug_marker_extension_ :
       device_supports_debug_marker_extension_[k] \in BOOLEAN
  /\ DOMAIN device_supports_debug_utils_extension_ \subseteq Keys
  /\ \A k \in DOMAIN device_supports_debug_utils_extension_ :
       device_supports_debug_utils_extension_[k] \in BOOLEAN
  /\ mutex_.writers \subseteq AllThreads /\ mutex_.readers \subseteq AllThreads
  /\ DOMAIN pc = AllThreads /\ DOMAIN fn = AllThreads /\ DOMAIN obj = AllThreads
  /\ \A t \in AllThreads :
       /\ obj[t] \in Objects \cup {0}
       /\ key[t] \in Keys \cup {0}
       /\ next_fn[t] \in InstanceResolvers \cup DeviceResolvers \cup {NoResolver}
       /\ Len(ret[t]) <= 1
       /\ fn[t] \in InstanceFields \cup DeviceFields \cup FlagFunctions
                    \cup {"", "CreateInstanceDispatchTable", "RemoveInstanceDispatchTable",
                          "CreateDeviceDispatchTable", "RemoveDeviceDispatchTable"}
  /\ fatal.thread \in AllThreads \cup {0}
  /\ DOMAIN instance_next_ = DOMAIN instance_dispatch_table_
  /\ DOMAIN device_next_ = DOMAIN device_dispatch_table_
  /\ follows_create \in [AllThreads -> BOOLEAN]

\* Application threads racing on a few objects.
Init == workload = "threads" /\ Constructed

\* One thread sweeping every accessor and every kind of resolver.
InitSweep == workload = "sweep" /\ Constructed

Next ==
  \E t \in AllThreads :
    \/ \E o \in Owners, r \in InstanceResolvers : CreateInstanceDispatchTable_Resolve(t, o, r)
    \/ CreateInstanceDispatchTable_Lock(t)
    \/ CreateInstanceDispatchTable_Insert(t)
    \/ CreateInstanceDispatchTable_Return(t)
    \/ \E o \in Objects : RemoveInstanceDispatchTable_Call(t, o)
    \/ RemoveInstanceDispatchTable_Lock(t)
    \/ RemoveInstanceDispatchTable_Erase(t)
    \/ RemoveInstanceDispatchTable_Return(t)
    \/ \E o \in Owners, r \in DeviceResolvers : CreateDeviceDispatchTable_Resolve(t, o, r)
    \/ CreateDeviceDispatchTable_Lock(t)
    \/ CreateDeviceDispatchTable_InsertTable(t)
    \/ CreateDeviceDispatchTable_InsertDebugUtils(t)
    \/ CreateDeviceDispatchTable_InsertDebugMarker(t)
    \/ CreateDeviceDispatchTable_Return(t)
    \/ \E o \in Objects : RemoveDeviceDispatchTable_Call(t, o)
    \/ RemoveDeviceDispatchTable_Lock(t)
    \/ RemoveDeviceDispatchTable_EraseTable(t)
    \/ RemoveDeviceDispatchTable_EraseDebugUtils(t)
    \/ RemoveDeviceDispatchTable_EraseDebugMarker(t)
    \/ RemoveDeviceDispatchTable_Return(t)
    \/ \E o \in Objects, f \in Accessors : Lookup_Call(t, f, o)
    \/ Lookup_Lock(t)
    \/ Lookup_CheckContains(t)
    \/ Lookup_CheckNonNull(t)
    \/ Lookup_Return(t)
    \/ \E o \in Objects, f \in FlagFunctions : IsExtensionSupported_Call(t, f, o)
    \/ IsExtensionSupported_Lock(t)
    \/ IsExtensionSupported_CheckContains(t)
    \/ IsExtensionSupported_Return(t)

Spec == Init /\ [][Next]_vars

\* The table after CreateDeviceDispatchTable(16, next) has returned, and
\* threads that only call accessors and predicate functions.
InitReaders ==
  /\ workload = "readers"
  /\ \E next \in DeviceResolvers :
       /\ device_dispatch_table_ =
            insert(Empty, GetDispatchTableKey(16), ResolveDeviceTable(16, next))
       /\ device_supports_debug_utils_extension_ =
            insert(Empty, GetDispatchTableKey(16),
                   SupportsDebugUtils(ResolveDeviceTable(16, next)))
       /\ device_supports_debug_marker_extension_ =
            insert(Empty, GetDispatchTableKey(16),
                   SupportsDebugMarker(ResolveDeviceTable(16, next)))
       /\ device_next_ = Record(Empty, GetDispatchTableKey(16), next)
  /\ instance_dispatch_table_ = Empty
  /\ instance_next_ = Empty
  /\ mutex_ = [writers |-> {}, readers |-> {}]
  /\ pc = [t \in AllThreads |-> "idle"]
  /\ fn = [t \in AllThreads |-> ""]
  /\ obj = [t \in AllThreads |-> 0]
  /\ next_fn = [t \in AllThreads |-> NoResolver]
  /\ dispatch_table = [t \in AllThreads |-> Empty]
  /\ key = [t \in AllThreads |-> 0]
  /\ ret = [t \in AllThreads |-> Empty]
  /\ fatal = NotFatal
  /\ follows_create = [t \in AllThreads |-> FALSE]

NextReaders ==
  \E t \in AllThreads :
    \/ \E o \in Objects, f \in Accessors : Lookup_Call(t, f, o)
    \/ Lookup_Lock(t)
    \/ Lookup_CheckContains(t)
    \/ Lookup_CheckNonNull(t)
    \/ Lookup_Return(t)
    \/ \E o \in Objects, f \in FlagFunctions : IsExtensionSupported_Call(t, f, o)
    \/ IsExtensionSupported_Lock(t)
    \/ IsExtensionSupported_CheckContains(t)
    \/ IsExtensionSupported_Return(t)

SpecReaders == InitReaders /\ [][NextReaders]_vars

SpecSweep == InitSweep /\ [][Next]_vars

\* Threads that keep calling the device functions for one device.
InitFair == workload = "fair" /\ Constructed

\* The step in which thread t is granted the mutex.
LockStep(t) ==
  \/ CreateDeviceDispatchTable_Lock(t) \/ RemoveDeviceDispatchTable_Lock(t)
  \/ Lookup_Lock(t) \/ IsExtensionSupported_Lock(t)

\* A step of thread t inside a critical section, the release of the mutex
\* included.
BodyStep(t) ==
  \/ CreateDeviceDispatchTable_InsertTable(t) \/ CreateDeviceDispatchTable_InsertDebugUtils(t)
  \/ CreateDeviceDispatchTable_InsertDebugMarker(t) \/ CreateDeviceDispatchTable_Return(t)
  \/ RemoveDeviceDispatchTable_EraseTable(t) \/ RemoveDeviceDispatchTable_EraseDebugUtils(t)
  \/ RemoveDeviceDispatchTable_EraseDebugMarker(t) \/ RemoveDeviceDispatchTable_Return(t)
  \/ Lookup_CheckContains(t) \/ Lookup_CheckNonNull(t) \/ Lookup_Return(t)
  \/ IsExtensionSupported_CheckContains(t) \/ IsExtensionSupported_Return(t)

\* The scheduler runs every thread that can run, and the mutex does not pass
\* over a thread to which it could be granted again and again. Nothing makes
\* the application call.
Fairness ==
  \A t \in AllThreads : WF_vars(BodyStep(t)) /\ SF_vars(LockStep(t))

NextFair ==
  \E t \in AllThreads :
    \/ \E o \in Owners, r \in DeviceResolvers : CreateDeviceDispatchTable_Resolve(t, o, r)
    \/ \E o \in Objects : RemoveDeviceDispatchTable_Call(t, o)
    \/ \E o \in Objects, f \in Accessors : Lookup_Call(t, f, o)
    \/ \E o \in Objects, f \in FlagFunctions : IsExtensionSupported_Call(t, f, o)
    \/ LockStep(t)
    \/ BodyStep(t)

SpecFair == InitFair /\ [][NextFair]_vars /\ Fairness

-----------------------------------------------------------------------------
(* Vocabulary of the properties *)

\* The history map that goes with the table an accessor reads.
HistoryOf(f) == IF f \in InstanceFields THEN instance_next_ ELSE device_next_

\* The objects whose first word is k.
ObjectsOf(k) == {o \in DOMAIN FirstWord : GetDispatchTableKey(o) = k}

\* What resolver next produced for field f when the entry of key k was created.
Produced(next, k, f) == {ProcAddr(next, o, ProcName[f]) : o \in ObjectsOf(k)}

\* The entry points behind each predicate function.
Pair(f) ==
  IF f = "IsDebugUtilsExtensionSupported"
  THEN {"CmdBeginDebugUtilsLabelEXT", "CmdEndDebugUtilsLabelEXT"}
  ELSE {"CmdDebugMarkerBeginEXT", "CmdDebugMarkerEndEXT"}

BothResolved(next, k, f) == \A g \in Pair(f) : nullptr \notin Produced(next, k, g)

\* Thread t is inside an accessor whose key is a live entry of its table.
Registered(t) == key[t] \in DOMAIN HistoryOf(fn[t])

InLookup(t) == pc[t] \in {"lk_contains", "lk_nonnull", "lk_return"}

InIsExtensionSupported(t) == pc[t] \in {"ex_contains", "ex_return"}

InReader(t) == InLookup(t) \/ InIsExtensionSupported(t)

InWriter(t) ==
  pc[t] \in {"ci_insert", "ci_unlock", "ri_erase", "ri_unlock", "cd_table", "cd_utils",
             "cd_marker", "cd_unlock", "rd_table", "rd_utils", "rd_marker", "rd_unlock"}

\* Steps: thread t returns a value; thread t fails a CHECK.
Returns(t) == pc[t] # "done" /\ pc'[t] = "done"

Aborts(t) == fatal = NotFatal /\ fatal'.thread = t

NullCheck == "CHECK(dispatch_table_.at(key).Field != nullptr)"

\* Thread t is in CreateInstanceDispatchTable or RemoveInstanceDispatchTable.
InInstanceWriter(t) ==
  pc[t] \in {"ci_lock", "ci_insert", "ci_unlock", "ri_lock", "ri_erase", "ri_unlock"}

\* Thread t is in CreateDeviceDispatchTable or RemoveDeviceDispatchTable.
InDeviceWriter(t) ==
  pc[t] \in {"cd_lock", "cd_table", "cd_utils", "cd_marker", "cd_unlock",
             "rd_lock", "rd_table", "rd_utils", "rd_marker", "rd_unlock"}

\* The step is one of thread t.
Steps(t) == pc'[t] # pc[t]

\* The three maps that hold a device entry.
device_maps == <<device_dispatch_table_, device_supports_debug_marker_extension_,
                 device_supports_debug_utils_extension_>>

-----------------------------------------------------------------------------
(* Properties *)

\* C1 (as amended): from the insertion of a key by Create until its erasure by
\* Remove, every accessor that returns for that key returns exactly the pointer
\* the resolver of that Create produced for the accessor's field, and an
\* accessor whose pointer was produced non-null does return (fails no CHECK).
C1_RoundTrip ==
  [][\A t \in AllThreads :
       /\ (InLookup(t) /\ Returns(t)) =>
            /\ Registered(t)
            /\ ret'[t][1] \in Produced(HistoryOf(fn[t])[key[t]], key[t], fn[t])
       /\ (InLookup(t) /\ Registered(t)
             /\ nullptr \notin Produced(HistoryOf(fn[t])[key[t]], key[t], fn[t])) =>
            ~Aborts(t)]_vars

\* C1 witness: GetDeviceQueue2, called with the command buffer of a device
\* registered with the second implementation, returned that implementation's
\* vkGetDeviceQueue2.
C1_Witness ==
  \E t \in AllThreads :
    /\ pc[t] = "done" /\ fn[t] = "GetDeviceQueue2" /\ obj[t] = 32
    /\ 1 \in DOMAIN device_next_ /\ device_next_[1] = [impl |-> 2, nulls |-> {}]
    /\ ret[t] = <<ProcAddr([impl |-> 2, nulls |-> {}], 16, "vkGetDeviceQueue2")>>

\* C1 as stated: every accessor called for a live key returns the pointer the
\* resolver produced, whatever that pointer is.
C1_AsStated ==
  [][\A t \in AllThreads :
       /\ (InLookup(t) /\ Returns(t)) =>
            /\ Registered(t)
            /\ ret'[t][1] \in Produced(HistoryOf(fn[t])[key[t]], key[t], fn[t])
       /\ (InLookup(t) /\ Registered(t)) => ~Aborts(t)]_vars

\* C2: a predicate function that returns for a key returns TRUE exactly when
\* the resolver of the key's Create produced both entry points of the
\* function's own extension non-null.
C2_CapabilityDerivation ==
  [][\A t \in AllThreads :
       (InIsExtensionSupported(t) /\ Returns(t)) =>
         /\ key[t] \in DOMAIN device_next_
         /\ ret'[t][1] = BothResolved(device_next_[key[t]], key[t], fn[t])]_vars

\* C2 witness: debug utils reported as supported for a device whose resolver
\* had no vkCmdDebugMarkerBeginEXT.
C2_Witness ==
  \E t \in AllThreads :
    /\ pc[t] = "done" /\ fn[t] = "IsDebugUtilsExtensionSupported" /\ ret[t] = <<TRUE>>
    /\ key[t] \in DOMAIN device_next_
    /\ device_next_[key[t]].nulls = {"vkCmdDebugMarkerBeginEXT"}

\* C3: an accessor or predicate function that reaches its presence check while
\* its key is not a live entry never gets past that check and never returns;
\* whatever returns, returns for a live entry.
C3_RemovePurges ==
  [][\A t \in AllThreads :
       /\ (pc[t] \in {"lk_contains", "ex_contains"} /\ ~Registered(t)) =>
            (pc'[t] = pc[t] /\ ret'[t] = Empty)
       /\ (InReader(t) /\ Returns(t)) => Registered(t)]_vars

\* C3 witness: QueueSubmit returned a pointer for a key to one thread, the key
\* was removed, and QueueSubmit for the same key then failed its presence check
\* in another thread.
C3_Witness ==
  \E t, u \in AllThreads :
    /\ fatal = [thread |-> t, check |-> "CHECK(dispatch_table_.contains(key))"]
    /\ fn[t] = "QueueSubmit" /\ pc[t] = "lk_contains"
    /\ ~contains(device_dispatch_table_, key[t])
    /\ u # t /\ pc[u] = "done" /\ fn[u] = "QueueSubmit" /\ key[u] = key[t]
    /\ ret[u] # Empty

\* C4: whenever the mutex is not held exclusively, and whenever a reader is
\* inside its critical section, the device table and the two flag maps have
\* the same keys.
C4_Coupling ==
  (mutex_.writers = {} \/ \E t \in AllThreads : InReader(t)) =>
    /\ DOMAIN device_supports_debug_utils_extension_ = DOMAIN device_dispatch_table_
    /\ DOMAIN device_supports_debug_marker_extension_ = DOMAIN device_dispatch_table_

\* C4 witness: a reader is inside its critical section while a device entry
\* and both of its flags are registered.
C4_Witness ==
  /\ \E t \in AllThreads : InIsExtensionSupported(t)
  /\ DOMAIN device_dispatch_table_ # {}
  /\ DOMAIN device_supports_debug_utils_extension_ = DOMAIN device_dispatch_table_
  /\ DOMAIN device_supports_debug_marker_extension_ = DOMAIN device_dispatch_table_

\* C5: the threads inside Create or Remove critical sections are the exclusive
\* holders of the mutex, the threads inside accessor or predicate critical
\* sections its shared holders; at most one thread holds it exclusively and
\* then none holds it shared.
C5_Exclusion ==
  /\ mutex_.writers = {t \in AllThreads : InWriter(t)}
  /\ mutex_.readers = {t \in AllThreads : InReader(t)}
  /\ Cardinality(mutex_.writers) <= 1
  /\ mutex_.writers # {} => mutex_.readers = {}

\* C5 witness: two readers are inside their critical sections at once.
C5_Witness ==
  /\ Cardinality({t \in AllThreads : InReader(t)}) >= 2
  /\ mutex_.writers = {}

\* C6: a Create that reaches its presence check for a key that is already a
\* live entry of its table never gets past the check, and no table or flag map
\* changes: the existing entry and its flags stay as they are.
C6_DuplicateCreate ==
  [][\A t \in AllThreads :
       /\ (pc[t] = "ci_insert" /\ key[t] \in DOMAIN instance_next_) =>
            (pc'[t] = pc[t] /\ tables' = tables)
       /\ (pc[t] = "cd_table" /\ key[t] \in DOMAIN device_next_) =>
            (pc'[t] = pc[t] /\ tables' = tables)]_vars

\* C6 witness: CreateDeviceDispatchTable failed its presence check for a key
\* registered with other pointers; the entry and both flags are still there.
C6_Witness ==
  \E t \in AllThreads :
    /\ fatal = [thread |-> t, check |-> "CHECK(!device_dispatch_table_.contains(key))"]
    /\ fn[t] = "CreateDeviceDispatchTable" /\ pc[t] = "cd_table"
    /\ device_dispatch_table_[key[t]] # dispatch_table[t]
    /\ device_dispatch_table_[key[t]] = ResolveDeviceTable(obj[t], device_next_[key[t]])
    /\ contains(device_supports_debug_utils_extension_, key[t])
    /\ contains(device_supports_debug_marker_extension_, key[t])

\* C7: a Remove that reaches its presence check for a key that is not a live
\* entry of its table never gets past the check, and no table or flag map
\* changes.
C7_RemoveAbsent ==
  [][\A t \in AllThreads :
       /\ (pc[t] = "ri_erase" /\ key[t] \notin DOMAIN instance_next_) =>
            (pc'[t] = pc[t] /\ tables' = tables)
       /\ (pc[t] = "rd_table" /\ key[t] \notin DOMAIN device_next_) =>
            (pc'[t] = pc[t] /\ tables' = tables)]_vars

\* C7 witness: a key that QueueSubmit once returned a pointer for was removed,
\* and a second RemoveDeviceDispatchTable of it failed its presence check.
C7_Witness ==
  \E t, u \in AllThreads :
    /\ fatal = [thread |-> t, check |-> "CHECK(device_dispatch_table_.contains(key))"]
    /\ fn[t] = "RemoveDeviceDispatchTable" /\ pc[t] = "rd_table"
    /\ u # t /\ pc[u] = "done" /\ fn[u] = "QueueSubmit" /\ key[u] = key[t]
    /\ ret[u] # Empty

\* C8: Create fails no CHECK for a key that is not registered, whatever the
\* resolver produced, and registers the resolved table, nulls included; an
\* accessor of a mandatory field that the resolver produced as null never gets
\* past its CHECK and never returns, and an accessor of a field produced
\* non-null fails no CHECK.
C8_NullMandatory ==
  [][\A t \in AllThreads :
       /\ (pc[t] = "ci_insert" /\ key[t] \notin DOMAIN instance_next_) =>
            /\ ~Aborts(t)
            /\ pc'[t] # pc[t] => instance_dispatch_table_'[key[t]] = dispatch_table[t]
       /\ (pc[t] = "cd_table" /\ key[t] \notin DOMAIN device_next_) =>
            /\ ~Aborts(t)
            /\ pc'[t] # pc[t] => device_dispatch_table_'[key[t]] = dispatch_table[t]
       /\ pc[t] \in {"cd_utils", "cd_marker"} => ~Aborts(t)
       /\ (pc[t] = "lk_nonnull" /\ Registered(t) /\ fn[t] \notin ExtensionFields) =>
            IF nullptr \in Produced(HistoryOf(fn[t])[key[t]], key[t], fn[t])
            THEN pc'[t] = pc[t] /\ ret'[t] = Empty
            ELSE ~Aborts(t)]_vars

\* C8 witness: QueueSubmit failed its CHECK on an entry that was registered
\* with a null vkQueueSubmit and a non-null vkDestroyDevice.
C8_Witness ==
  \E t \in AllThreads :
    /\ fatal = [thread |-> t, check |-> NullCheck]
    /\ fn[t] = "QueueSubmit" /\ pc[t] = "lk_nonnull"
    /\ device_next_[key[t]].nulls = {"vkQueueSubmit"}
    /\ device_dispatch_table_[key[t]].QueueSubmit = nullptr
    /\ device_dispatch_table_[key[t]].DestroyDevice # nullptr

\* C9: CreateDeviceDispatchTable with a resolver whose only nulls are among the
\* four extension entry points fails no CHECK for an unregistered key, and when
\* it is about to return the entry is registered with exactly those fields
\* null and each flag false exactly when an entry point of its own extension
\* is null.
C9_OptionalAbsence ==
  [][\A t \in AllThreads :
       (fn[t] = "CreateDeviceDispatchTable" /\ next_fn[t].nulls \subseteq Names(ExtensionFields)) =>
         /\ (pc[t] = "cd_table" /\ key[t] \notin DOMAIN device_next_) => ~Aborts(t)
         /\ pc[t] \in {"cd_utils", "cd_marker"} => ~Aborts(t)
         /\ pc[t] = "cd_unlock" =>
              /\ contains(device_dispatch_table_, key[t])
              /\ \A f \in DeviceFields :
                   device_dispatch_table_[key[t]][f] = nullptr <=> ProcName[f] \in next_fn[t].nulls
              /\ contains(device_supports_debug_utils_extension_, key[t])
              /\ device_supports_debug_utils_extension_[key[t]] =
                   (next_fn[t].nulls \cap
                      {"vkCmdBeginDebugUtilsLabelEXT", "vkCmdEndDebugUtilsLabelEXT"} = {})
              /\ contains(device_supports_debug_marker_extension_, key[t])
              /\ device_supports_debug_marker_extension_[key[t]] =
                   (next_fn[t].nulls \cap
                      {"vkCmdDebugMarkerBeginEXT", "vkCmdDebugMarkerEndEXT"} = {})]_vars

\* C9 witness: a Create whose resolver had no vkCmdEndDebugUtilsLabelEXT is
\* about to return: no CHECK failed, debug utils is off, debug marker is on.
C9_Witness ==
  \E t \in AllThreads :
    /\ pc[t] = "cd_unlock" /\ fatal = NotFatal
    /\ next_fn[t].nulls = {"vkCmdEndDebugUtilsLabelEXT"}
    /\ device_dispatch_table_[key[t]].CmdEndDebugUtilsLabelEXT = nullptr
    /\ device_supports_debug_utils_extension_[key[t]] = FALSE
    /\ device_supports_debug_marker_extension_[key[t]] = TRUE

\* C10: for a live device key, an accessor of an extension entry point that
\* the resolver produced non-null fails no CHECK and returns that pointer, and
\* one that the resolver produced as null never returns, whatever the flags of
\* the key are.
C10_NoCapabilityGate ==
  [][\A t \in AllThreads :
       (InLookup(t) /\ fn[t] \in ExtensionFields /\ Registered(t)) =>
         IF nullptr \in Produced(device_next_[key[t]], key[t], fn[t])
         THEN ~Returns(t)
         ELSE /\ ~Aborts(t)
              /\ Returns(t) =>
                   ret'[t][1] \in Produced(device_next_[key[t]], key[t], fn[t])]_vars

\* C10 witness: CmdBeginDebugUtilsLabelEXT returned its pointer for a device
\* whose debug utils flag is false because vkCmdEndDebugUtilsLabelEXT is null.
C10_Witness ==
  \E t \in AllThreads :
    /\ pc[t] = "done" /\ fn[t] = "CmdBeginDebugUtilsLabelEXT"
    /\ ret[t] # Empty /\ ret[t][1] # nullptr
    /\ device_next_[key[t]].nulls = {"vkCmdEndDebugUtilsLabelEXT"}
    /\ device_supports_debug_utils_extension_[key[t]] = FALSE

\* C11: a key may be registered in the instance table and in the device table
\* at once. An accessor of a device field then returns the pointer stored in
\* the device entry, which is none of the instance entry's pointers, and an
\* accessor of an instance field the pointer stored in the instance entry,
\* which is none of the device entry's; no step of Create or Remove on the
\* instance table changes the device table or a flag map, and no step of
\* Create or Remove on the device table changes the instance table.
C11_Disjointness ==
  [][\A t \in AllThreads :
       /\ (Steps(t) /\ (InInstanceWriter(t) \/ InInstanceWriter(t)')) =>
            device_maps' = device_maps
       /\ (Steps(t) /\ (InDeviceWriter(t) \/ InDeviceWriter(t)')) =>
            instance_dispatch_table_' = instance_dispatch_table_
       /\ (InLookup(t) /\ Returns(t) /\ fn[t] \in DeviceFields) =>
            /\ ret'[t][1] = device_dispatch_table_[key[t]][fn[t]]
            /\ contains(instance_dispatch_table_, key[t]) =>
                 \A g \in InstanceFields : ret'[t][1] # instance_dispatch_table_[key[t]][g]
       /\ (InLookup(t) /\ Returns(t) /\ fn[t] \in InstanceFields) =>
            /\ ret'[t][1] = instance_dispatch_table_[key[t]][fn[t]]
            /\ contains(device_dispatch_table_, key[t]) =>
                 \A g \in DeviceFields : ret'[t][1] # device_dispatch_table_[key[t]][g]]_vars

\* C11 witness: one key is registered in both tables; DestroyInstance returned
\* the instance entry's pointer for it to one thread and QueueSubmit the device
\* entry's pointer to another.
C11_Witness ==
  \E t, u \in AllThreads, k \in Keys :
    /\ contains(instance_dispatch_table_, k) /\ contains(device_dispatch_table_, k)
    /\ pc[t] = "done" /\ fn[t] = "DestroyInstance" /\ key[t] = k
    /\ ret[t] = <<instance_dispatch_table_[k].DestroyInstance>>
    /\ pc[u] = "done" /\ fn[u] = "QueueSubmit" /\ key[u] = k
    /\ ret[u] = <<device_dispatch_table_[k].QueueSubmit>>
    /\ ret[t] # ret[u]

\* The device entry of key k is whole: the table made by one Create and the
\* two flags computed from that table.
WholeDeviceEntry(k) ==
  /\ contains(device_dispatch_table_, k)
  /\ device_dispatch_table_[k] \in
       {ResolveDeviceTable(o, device_next_[k]) : o \in ObjectsOf(k)}
  /\ contains(device_supports_debug_utils_extension_, k)
  /\ device_supports_debug_utils_extension_[k] =
       SupportsDebugUtils(device_dispatch_table_[k])
  /\ contains(device_supports_debug_marker_extension_, k)
  /\ device_supports_debug_marker_extension_[k] =
       SupportsDebugMarker(device_dispatch_table_[k])

\* The instance entry of key k is the table made by one Create.
WholeInstanceEntry(k) ==
  /\ contains(instance_dispatch_table_, k)
  /\ instance_dispatch_table_[k] \in
       {ResolveInstanceTable(o, instance_next_[k]) : o \in ObjectsOf(k)}

\* No part of an entry of key k is in the maps accessor f reads.
NoEntry(f, k) ==
  IF f \in InstanceFields
  THEN ~contains(instance_dispatch_table_, k)
  ELSE /\ ~contains(device_dispatch_table_, k)
       /\ ~contains(device_supports_debug_utils_extension_, k)
       /\ ~contains(device_supports_debug_marker_extension_, k)

WholeEntry(f, k) ==
  IF f \in InstanceFields THEN WholeInstanceEntry(k) ELSE WholeDeviceEntry(k)

\* C12 (as amended): an accessor or predicate call that began after the Create
\* of its key had returned, the key not having been erased since, passes its
\* presence check; inside its critical section every reader finds either the
\* whole entry of its key (all fields and both flags as made by one Create) or
\* no part of one, and whatever it returns is read from the whole entry. A
\* call that began before the Create returned may find either.
C12_Ordering ==
  [][\A t \in AllThreads :
       /\ (pc[t] \in {"lk_contains", "ex_contains"} /\ follows_create[t]) =>
            (WholeEntry(fn[t], key[t]) /\ ~Aborts(t))
       /\ InReader(t) => (WholeEntry(fn[t], key[t]) \/ NoEntry(fn[t], key[t]))
       /\ (InReader(t) /\ Returns(t)) => WholeEntry(fn[t], key[t])]_vars

\* C12 witness: QueueSubmit, called after the Create of its key had returned,
\* is past both checks and about to return the pointer of the whole entry.
C12_Witness ==
  \E t \in AllThreads :
    /\ pc[t] = "lk_return" /\ fn[t] = "QueueSubmit" /\ follows_create[t]
    /\ WholeDeviceEntry(key[t])
    /\ device_dispatch_table_[key[t]].QueueSubmit # nullptr

\* C12 as stated: an accessor or predicate call observes the entry of its key
\* only if the Create of the key had returned before the call began.
C12_AsStated ==
  [][\A t \in AllThreads :
       /\ (pc[t] \in {"lk_contains", "ex_contains"} /\ follows_create[t]) =>
            (WholeEntry(fn[t], key[t]) /\ ~Aborts(t))
       /\ (pc[t] \in {"lk_contains", "ex_contains"} /\ ~follows_create[t]) =>
            pc'[t] = pc[t]
       /\ (InReader(t) /\ Returns(t)) => follows_create[t]]_vars

\* What map holds for key k: nothing, or its value.
At(map, k) == IF contains(map, k) THEN <<map[k]>> ELSE Empty

\* What the four maps hold for key k.
EntryOf(k) ==
  <<At(instance_dispatch_table_, k), At(device_dispatch_table_, k),
    At(device_supports_debug_marker_extension_, k),
    At(device_supports_debug_utils_extension_, k)>>

ReaderStep(t) ==
  \/ Lookup_Lock(t) \/ Lookup_CheckContains(t) \/ Lookup_CheckNonNull(t) \/ Lookup_Return(t)
  \/ IsExtensionSupported_Lock(t) \/ IsExtensionSupported_CheckContains(t)
  \/ IsExtensionSupported_Return(t)

\* Thread t has called an accessor or predicate function for the key of the
\* registered device entry, the accessor's pointer being registered non-null.
ReadsRegistered(t) ==
  /\ pc[t] \in {"lk_lock", "ex_lock"} \/ InReader(t)
  /\ contains(device_next_, GetDispatchTableKey(obj[t]))
  /\ fn[t] \in DeviceFields =>
       device_dispatch_table_[GetDispatchTableKey(obj[t])][fn[t]] # nullptr

SameWord(o) == {p \in DOMAIN FirstWord : FirstWord[p] = FirstWord[o]}

\* C15: handles with the same first machine word derive the same key. So a
\* call with one handle passes its presence check whenever the entry was
\* registered with a handle of the same first word, what it returns is what
\* the entry of any such handle holds, and when Remove is about to return
\* there is no entry left for any of them.
C15_KeySharing ==
  [][/\ \A o \in Objects : \A p \in SameWord(o) :
          GetDispatchTableKey(o) = GetDispatchTableKey(p)
     /\ \A t \in AllThreads :
          /\ (pc[t] \in {"lk_contains", "ex_contains"}
                /\ \E p \in SameWord(obj[t]) :
                     contains(HistoryOf(fn[t]), GetDispatchTableKey(p))) =>
               ~Aborts(t)
          /\ (InLookup(t) /\ Returns(t)) =>
               \A p \in SameWord(obj[t]) :
                 /\ contains(TableOf(fn[t]), GetDispatchTableKey(p))
                 /\ ret'[t][1] = TableOf(fn[t])[GetDispatchTableKey(p)][fn[t]]
          /\ (InIsExtensionSupported(t) /\ Returns(t)) =>
               \A p \in SameWord(obj[t]) :
                 /\ contains(FlagsOf(fn[t]), GetDispatchTableKey(p))
                 /\ ret'[t][1] = FlagsOf(fn[t])[GetDispatchTableKey(p)]
          /\ pc[t] = "rd_unlock" =>
               \A p \in SameWord(obj[t]) : NoEntry("DestroyDevice", GetDispatchTableKey(p))
          /\ pc[t] = "ri_unlock" =>
               \A p \in SameWord(obj[t]) : NoEntry("DestroyInstance", GetDispatchTableKey(p))]_vars

\* C15 witness: AllocateCommandBuffers, called with the command buffer 32 of
\* the device 16 that the entry was registered with, returned the pointer the
\* entry holds.
C15_Witness ==
  \E t \in AllThreads :
    /\ workload = "sweep"
    /\ pc[t] = "done" /\ fn[t] = "AllocateCommandBuffers" /\ obj[t] = 32
    /\ contains(device_dispatch_table_, GetDispatchTableKey(16))
    /\ ret[t] = <<device_dispatch_table_[GetDispatchTableKey(16)].AllocateCommandBuffers>>
    /\ ret[t][1] # nullptr

\* C16: a flag that is stored for a key keeps its value as long as it is
\* stored: no step of any function changes it. A flag appears only in the
\* CreateDeviceDispatchTable of its key and disappears only in the
\* RemoveDeviceDispatchTable of its key, and every predicate function that
\* returns for the key returns the stored flag, which is the one computed from
\* the pointers of that Create.
C16_FlagsImmutable ==
  [][/\ \A k \in Keys : \A f \in FlagFunctions :
          /\ (contains(FlagsOf(f), k) /\ contains(FlagsOf(f)', k)) =>
               FlagsOf(f)'[k] = FlagsOf(f)[k]
          /\ (~contains(FlagsOf(f), k) /\ contains(FlagsOf(f)', k)) =>
               /\ \E t \in AllThreads : pc[t] \in {"cd_utils", "cd_marker"} /\ key[t] = k
               /\ FlagsOf(f)'[k] = BothResolved(device_next_[k], k, f)
          /\ (contains(FlagsOf(f), k) /\ ~contains(FlagsOf(f)', k)) =>
               \E t \in AllThreads : pc[t] \in {"rd_utils", "rd_marker"} /\ key[t] = k
     /\ \A t \in AllThreads :
          (InIsExtensionSupported(t) /\ Returns(t)) =>
            /\ ret'[t][1] = FlagsOf(fn[t])[key[t]]
            /\ ret'[t][1] = BothResolved(device_next_[key[t]], key[t], fn[t])]_vars

\* C16 witness: IsDebugMarkerExtensionSupported returned FALSE for a key;
\* since then a device with the debug marker extension has been registered
\* under another key, and the stored flag of the first key is still FALSE.
C16_Witness ==
  \E t, u \in AllThreads :
    /\ pc[t] = "done" /\ fn[t] = "IsDebugMarkerExtensionSupported" /\ ret[t] = <<FALSE>>
    /\ pc[u] = "cd_unlock" /\ key[u] # key[t]
    /\ device_supports_debug_marker_extension_[key[u]] = TRUE
    /\ contains(device_supports_debug_marker_extension_, key[t])
    /\ device_supports_debug_marker_extension_[key[t]] = FALSE

\* The step in which thread t calls the resolver: its local dispatch_table
\* receives its pointers.
CallsResolver(t) == dispatch_table[t] = Empty /\ dispatch_table'[t] # Empty

Creates == {"CreateInstanceDispatchTable", "CreateDeviceDispatchTable"}

\* C17: a thread calls the resolver only in Create and only while it does not
\* hold the mutex, neither before nor after the step; the local table of a
\* Create is not resolved again before it returns; Remove, the accessors and
\* the predicate functions have no resolver and no local table; and a stored
\* entry is never written again as long as it is stored.
C17_ResolverOutsideLock ==
  [][/\ \A t \in AllThreads :
          /\ CallsResolver(t) =>
               /\ fn'[t] \in Creates
               /\ t \notin mutex_.writers \cup mutex_.readers
               /\ t \notin mutex_'.writers \cup mutex_'.readers
               /\ dispatch_table'[t] \in
                    {ResolveInstanceTable(obj'[t], next_fn'[t]),
                     ResolveDeviceTable(obj'[t], next_fn'[t])}
          /\ (t \in mutex_.writers \cup mutex_.readers) =>
               dispatch_table'[t] \in {dispatch_table[t], Empty}
          /\ fn[t] \notin Creates =>
               (next_fn[t] = NoResolver /\ dispatch_table[t] = Empty)
     /\ \A k \in Keys :
          /\ (contains(instance_dispatch_table_, k) /\ contains(instance_dispatch_table_', k)) =>
               instance_dispatch_table_'[k] = instance_dispatch_table_[k]
          /\ (contains(device_dispatch_table_, k) /\ contains(device_dispatch_table_', k)) =>
               device_dispatch_table_'[k] = device_dispatch_table_[k]]_vars

\* C17 witness: a thread has resolved the pointers of a device and waits for
\* the mutex, which another thread holds exclusively.
C17_Witness ==
  \E t, u \in AllThreads :
    /\ pc[t] = "cd_lock" /\ dispatch_table[t] = ResolveDeviceTable(obj[t], next_fn[t])
    /\ t \notin mutex_.writers
    /\ u # t /\ mutex_.writers = {u}

\* Thread t is inside a member function.
Started(t) == pc[t] \notin {"idle", "done"}

\* Thread t holds the mutex.
Holds(t) == t \in mutex_.writers \cup mutex_.readers

\* Thread t waits for the mutex, which cannot be granted to it now.
Blocked(t) ==
  \/ pc[t] \in {"ci_lock", "ri_lock", "cd_lock", "rd_lock"} /\ ~CanLockExclusive
  \/ pc[t] \in {"lk_lock", "ex_lock"} /\ ~CanLockShared

\* The mutex is fair: if every thread that holds it releases it again, no
\* thread stays blocked for ever.
FairMutex ==
  (\A u \in AllThreads : []<>~Holds(u)) => (\A t \in AllThreads : []<>~Blocked(t))

\* C18: with a fair scheduler and a fair mutex, every call of Create, Remove,
\* an accessor or a predicate function that has started eventually returns,
\* unless a CHECK terminates the process; so a Create or Remove that waits for
\* the mutex is granted it, however the other threads go on calling accessors.
C18_Termination ==
  FairMutex => \A t \in AllThreads : Started(t) ~> (~Started(t) \/ fatal # NotFatal)

\* C18 witness: RemoveDeviceDispatchTable has been granted the mutex and holds
\* it exclusively, while QueueSubmit, called by another thread, waits for it.
C18_Witness ==
  \E t, u \in AllThreads :
    /\ workload = "fair"
    /\ pc[t] = "rd_table" /\ t \in mutex_.writers
    /\ pc[u] = "lk_lock" /\ fn[u] = "QueueSubmit" /\ Blocked(u)

\* The predicate function of the extension that entry point g belongs to.
PredicateOf(g) ==
  IF g \in Pair("IsDebugUtilsExtensionSupported")
  THEN "IsDebugUtilsExtensionSupported"
  ELSE "IsDebugMarkerExtensionSupported"

\* The flag of the extension of entry point g is stored as TRUE for key k.
FlagSet(g, k) ==
  contains(FlagsOf(PredicateOf(g)), k) /\ FlagsOf(PredicateOf(g))[k]

\* C19: when a predicate function returns TRUE for a key, the entry of the key
\* holds both entry points of the extension non-null; and as long as the flag
\* of an extension is stored as TRUE for a key, an accessor of either entry
\* point of that extension called for the key fails no CHECK and returns a
\* non-null pointer.
C19_FlagImpliesPointers ==
  [][\A t \in AllThreads :
       /\ (InIsExtensionSupported(t) /\ Returns(t) /\ ret'[t][1]) =>
            /\ contains(device_dispatch_table_, key[t])
            /\ \A g \in Pair(fn[t]) : device_dispatch_table_[key[t]][g] # nullptr
       /\ (InLookup(t) /\ fn[t] \in ExtensionFields /\ FlagSet(fn[t], key[t])) =>
            /\ ~Aborts(t)
            /\ Returns(t) => ret'[t][1] # nullptr]_vars

\* C19 witness: CmdDebugMarkerEndEXT returned a non-null pointer for a key
\* whose debug marker flag is TRUE and whose debug utils flag is FALSE.
C19_Witness ==
  \E t \in AllThreads :
    /\ pc[t] = "done" /\ fn[t] = "CmdDebugMarkerEndEXT"
    /\ FlagSet("CmdDebugMarkerEndEXT", key[t])
    /\ ~FlagSet("CmdEndDebugUtilsLabelEXT", key[t])
    /\ ret[t] = <<device_dispatch_table_[key[t]].CmdDebugMarkerEndEXT>>
    /\ ret[t][1] # nullptr

\* C20: when Remove is about to return, nothing is stored for its key in the
\* maps of its table, so a Create of the same key that follows fails no CHECK;
\* when that Create is about to return, the entry is the table it resolved
\* with its own resolver and the flags are those of that table; and whatever
\* an accessor or predicate function returns for the key is what the resolver
\* of the latest Create produced.
C20_Reregistration ==
  [][\A t \in AllThreads :
       /\ pc[t] = "rd_unlock" => NoEntry("DestroyDevice", key[t])
       /\ pc[t] = "ri_unlock" => NoEntry("DestroyInstance", key[t])
       /\ (pc[t] = "cd_table" /\ ~contains(device_dispatch_table_, key[t])) => ~Aborts(t)
       /\ pc[t] \in {"cd_utils", "cd_marker"} => ~Aborts(t)
       /\ (pc[t] = "ci_insert" /\ ~contains(instance_dispatch_table_, key[t])) => ~Aborts(t)
       /\ pc[t] = "cd_unlock" =>
            /\ WholeDeviceEntry(key[t])
            /\ device_next_[key[t]] = next_fn[t]
            /\ device_dispatch_table_[key[t]] = ResolveDeviceTable(obj[t], next_fn[t])
       /\ pc[t] = "ci_unlock" =>
            /\ instance_next_[key[t]] = next_fn[t]
            /\ instance_dispatch_table_[key[t]] = ResolveInstanceTable(obj[t], next_fn[t])
       /\ (InLookup(t) /\ Returns(t)) =>
            ret'[t][1] \in Produced(HistoryOf(fn[t])[key[t]], key[t], fn[t])
       /\ (InIsExtensionSupported(t) /\ Returns(t)) =>
            ret'[t][1] = BothResolved(device_next_[key[t]], key[t], fn[t])]_vars

\* C20 witness: QueueSubmit returned the pointer of one resolver for a key to
\* one thread; the key was removed and registered again with another resolver,
\* and QueueSubmit then returned the pointer of that resolver to another
\* thread, the debug marker flag of the key being the new resolver's.
C20_Witness ==
  \E t, u \in AllThreads :
    /\ pc[u] = "done" /\ fn[u] = "QueueSubmit" /\ ret[u] # Empty
    /\ pc[t] = "done" /\ fn[t] = "QueueSubmit" /\ key[t] = key[u]
    /\ contains(device_next_, key[t])
    /\ ret[t] = <<ProcAddr(device_next_[key[t]], obj[t], "vkQueueSubmit")>>
    /\ ret[u] # ret[t]
    /\ WholeDeviceEntry(key[t])
    /\ device_supports_debug_marker_extension_[key[t]] =
         BothResolved(device_next_[key[t]], key[t], "IsDebugMarkerExtensionSupported")

-----------------------------------------------------------------------------
(* An accessor or predicate function racing with a Remove of its key *)

\* Thread t is past the presence check of its accessor or predicate function.
PastPresenceCheck(t) == pc[t] \in {"lk_nonnull", "lk_return", "ex_return"}

\* Thread t stands at the presence check.
AtPresenceCheck(t) == pc[t] \in {"lk_contains", "ex_contains"}

\* Thread u is in a Remove of the key thread t reads, in the table t reads.
RemovesKeyOf(u, t) ==
  /\ u # t
  /\ key[u] = GetDispatchTableKey(obj[t])
  /\ IF fn[t] \in InstanceFields
     THEN pc[u] \in {"ri_lock", "ri_erase", "ri_unlock"}
     ELSE pc[u] \in {"rd_lock", "rd_table", "rd_utils", "rd_marker", "rd_unlock"}

====
